---- MODULE Spec2Model ----
(***************************************************************************)
(* A state-machine model of the AMM flow-toxicity fade strategy:           *)
(* price-impact analysis, isolated-shock classification, position sizing,  *)
(* the signal builder and the position registry, as wired by               *)
(* strategy.handle_message.                                                *)
(***************************************************************************)
EXTENDS Integers, Sequences, FiniteSets, TLC

(***************************************************************************)
(* strategy_config.py                                                      *)
(***************************************************************************)
MIN_IMPACT_BASIS_POINTS == 50
MAX_IMPACT_BASIS_POINTS == 500
\* 0.1, 0.05 and 0.01 are kept exact as fractions n/d.
MIN_LIQUIDITY_RATIO == [n |-> 1, d |-> 10]
WAIT_TIME_SECONDS == 2
MAX_POSITION_SIZE_RATIO == [n |-> 5, d |-> 100]
MIN_POSITION_SIZE == [n |-> 1, d |-> 100]
STOP_LOSS_BASIS_POINTS == 100
TAKE_PROFIT_BASIS_POINTS == 50
FLOW_DETECTION_WINDOW_SECONDS == 30
MAX_SAME_DIRECTION_EVENTS == 1
\* deque(maxlen=10) in flow_detector.py
HISTORY_MAXLEN == 10

Directions == {"AtoB", "BtoA"}

(***************************************************************************)
(* Bounds of the model.                                                    *)
(***************************************************************************)
\* SpecFlow: latest event time of a behaviour (seconds).
MaxFlowTime == 60

\* Length up to which a run of classifier calls is counted.
MaxRun == 12

\* Spec: events handled in one behaviour, events per message, and the
\* latest reading of the wall clock.
MaxEvents == 3
MaxMsgLen == 2
MaxClock == 3

\* SpecImpact: tiers per direction of a price table.
MaxTiers == 2

\* SpecSize: the largest Decimals of a currency.
MaxDecimals == 3

\* SpecCoerce: every string up to this length is a field value.
MaxStrLen == 2

PoolIds == {"p1", "p2"}

VARIABLES
    pool_event_history,   \* flow_detector.pool_event_history: pool id -> deque
    active_positions,     \* signal_generator.active_positions: pool id -> signal
    clock,                \* the wall clock read by time.time(), in seconds
    pool_events,          \* handle_message: the events of the message still to handle
    pc,                   \* handle_message: "poll", "monitor" or "process"
    n_events,             \* events handled so far
    last_step,            \* << >> or <<r>>: the latest monitor/process step and what it returned
    born,                 \* pool id -> number of the event whose processing registered its position
    last_call,            \* << >> or <<r>>: the latest is_isolated_shock call and its verdict
    flow_run,             \* per pool: the run of calls made since the pool had no history
    call_clock,           \* SpecFlow: time of the latest call (the stream is ordered)
    impact_case,          \* SpecImpact: << >> or <<[pool_event, result]>>, one analysis
    other_run,            \* SpecTwoRuns: clock, registry and histories of a second run
    size_case,            \* SpecSize: << >> or <<r>>, one sizing of an event at two impacts
    coerce_case,          \* SpecCoerce: << >> or <<r>>, one message field and what it became
    soft_case,            \* SpecSoft: << >> or <<r>>, one event as spelled and how it ended
    signal_case           \* SpecSignal: << >> or <<r>>, one event and the signal it gave

flow_vars == <<pool_event_history, last_call, flow_run>>
pipeline_vars == <<active_positions, clock, pool_events, pc, n_events, last_step, born>>
\* What the pipeline leaves alone: the state of the other specifications.
pure_vars == <<size_case, coerce_case, soft_case, signal_case>>
side_vars == <<call_clock, impact_case, other_run, pure_vars>>
vars == <<pool_event_history, active_positions, clock, pool_events, pc, n_events,
          last_step, born, last_call, flow_run, call_clock, impact_case, other_run,
          size_case, coerce_case, soft_case, signal_case>>

(***************************************************************************)
(* Numbers.  Python floats are kept exact as fractions [n, d] with d > 0,  *)
(* in lowest terms.                                                        *)
(***************************************************************************)
AbsInt(x) == IF x < 0 THEN -x ELSE x

RECURSIVE GCD(_, _)
GCD(a, b) == IF b = 0 THEN a ELSE GCD(b, a % b)

Rat(n, d) ==
    LET g == GCD(AbsInt(n), AbsInt(d))
        sgn == IF d < 0 THEN -1 ELSE 1
    IN  [n |-> sgn * (n \div g), d |-> sgn * (d \div g)]

RatInt(i) == [n |-> i, d |-> 1]
RatAdd(a, b) == Rat(a.n * b.d + b.n * a.d, a.d * b.d)
RatSub(a, b) == Rat(a.n * b.d - b.n * a.d, a.d * b.d)
RatMul(a, b) == Rat(a.n * b.n, a.d * b.d)
RatDiv(a, b) == Rat(a.n * b.d, a.d * b.n)
RatAbs(a) == [n |-> AbsInt(a.n), d |-> a.d]
RatLe(a, b) == a.n * b.d <= b.n * a.d
RatLt(a, b) == a.n * b.d < b.n * a.d
RatMax(a, b) == IF RatLe(b, a) THEN a ELSE b
RatIsZero(a) == a.n = 0

RECURSIVE Pow10(_)
Pow10(k) == IF k = 0 THEN 1 ELSE 10 * Pow10(k - 1)

(***************************************************************************)
(* Python values.  A dict is a function from its keys; {} and None are the *)
(* empty function.  A number is [kind |-> "num", n, d]; a str is           *)
(* [kind |-> "str", s], s the sequence of its characters.                  *)
(***************************************************************************)
Num(i) == [kind |-> "num", n |-> i, d |-> 1]
Frac(n, d) == [kind |-> "num", n |-> n, d |-> d]
Str(chars) == [kind |-> "str", s |-> chars]

\* dict.get(key, default)
Get(dict, key, default) == IF key \in DOMAIN dict THEN dict[key] ELSE default

EmptyDict == << >>

DecDigits == <<"0", "1", "2", "3", "4", "5", "6", "7", "8", "9">>
HexDigits == DecDigits \o <<"a", "b", "c", "d", "e", "f">>
UpperHex == <<"A", "B", "C", "D", "E", "F">>

Range(seq) == {seq[i] : i \in 1..Len(seq)}

DigitValue(c) ==
    IF c \in Range(UpperHex)
    THEN 9 + (CHOOSE i \in 1..Len(UpperHex) : UpperHex[i] = c)
    ELSE (CHOOSE i \in 1..Len(HexDigits) : HexDigits[i] = c) - 1

IsHexChar(c) == c \in Range(HexDigits) \cup Range(UpperHex)
IsDecChar(c) == c \in Range(DecDigits)

AllHex(s) == \A i \in 1..Len(s) : IsHexChar(s[i])
AllDec(s) == \A i \in 1..Len(s) : IsDecChar(s[i])

RECURSIVE DigitsValue(_, _, _)
DigitsValue(s, base, acc) ==
    IF s = << >> THEN acc
    ELSE DigitsValue(Tail(s), base, acc * base + DigitValue(Head(s)))

StartsWith(s, prefix) ==
    Len(s) >= Len(prefix) /\ SubSeq(s, 1, Len(prefix)) = prefix

Drop(s, k) == SubSeq(s, k + 1, Len(s))

\* A parse either fails (ValueError) or yields a fraction.
ParseError == [ok |-> FALSE, v |-> RatInt(0)]
Parsed(v) == [ok |-> TRUE, v |-> v]

\* int(s, 16), for strings over digits, letters, "x", "." and "-":
\* an optional sign, an optional 0x prefix, one or more hex digits.
IntBase16(s) ==
    LET neg == StartsWith(s, <<"-">>)
        u == IF neg THEN Drop(s, 1) ELSE s
        body == IF StartsWith(u, <<"0", "x">>) \/ StartsWith(u, <<"0", "X">>)
                THEN Drop(u, 2) ELSE u
    IN  IF body # << >> /\ AllHex(body)
        THEN Parsed(RatInt((IF neg THEN -1 ELSE 1) * DigitsValue(body, 16, 0)))
        ELSE ParseError

\* int(s): an optional sign, one or more decimal digits.
IntBase10(s) ==
    LET neg == StartsWith(s, <<"-">>)
        body == IF neg THEN Drop(s, 1) ELSE s
    IN  IF body # << >> /\ AllDec(body)
        THEN Parsed(RatInt((IF neg THEN -1 ELSE 1) * DigitsValue(body, 10, 0)))
        ELSE ParseError

\* The exponent of a float literal: an optional sign, one or more digits.
ExponentOf(x) ==
    LET neg == StartsWith(x, <<"-">>)
        body == IF neg THEN Drop(x, 1) ELSE x
    IN  IF body # << >> /\ AllDec(body)
        THEN Parsed(RatInt((IF neg THEN -1 ELSE 1) * DigitsValue(body, 10, 0)))
        ELSE ParseError

\* mantissa x 10^exponent
Scale10(v, exponent) ==
    IF exponent >= 0 THEN RatMul(v, RatInt(Pow10(exponent)))
    ELSE RatDiv(v, RatInt(Pow10(-exponent)))

\* float(s), for strings over digits, letters, "x", "." and "-": an
\* optional sign, digits with at most one point and at least one digit,
\* then an optional exponent, "e" followed by a signed integer.
FloatOf(s) ==
    LET neg == StartsWith(s, <<"-">>)
        body == IF neg THEN Drop(s, 1) ELSE s
        marks == {i \in 1..Len(body) : body[i] \in {"e", "E"}}
        m == IF marks = {} THEN Len(body) + 1
             ELSE CHOOSE i \in marks : \A j \in marks : i <= j
        mantissa == SubSeq(body, 1, m - 1)
        exponent == IF marks = {} THEN Parsed(RatInt(0)) ELSE ExponentOf(Drop(body, m))
        dots == {i \in 1..Len(mantissa) : mantissa[i] = "."}
        k == IF dots = {} THEN Len(mantissa) + 1 ELSE CHOOSE i \in dots : TRUE
        whole == SubSeq(mantissa, 1, k - 1)
        frac == Drop(mantissa, k)
    IN  IF /\ Cardinality(dots) <= 1
           /\ AllDec(whole) /\ AllDec(frac) /\ Len(whole) + Len(frac) > 0
           /\ exponent.ok
        THEN Parsed(Scale10(Rat((IF neg THEN -1 ELSE 1)
                                    * DigitsValue(whole \o frac, 10, 0),
                                Pow10(Len(frac))),
                            exponent.v.n))
        ELSE ParseError

HasDot(s) == \E i \in 1..Len(s) : s[i] = "."

(***************************************************************************)
(* utils.py                                                                *)
(***************************************************************************)
\* The "regular int/float conversion" of lines 24-29.
RegularNumeric(s) == IF HasDot(s) THEN FloatOf(s) ELSE IntBase10(s)

safe_to_numeric(value) ==
    IF value.kind = "num" THEN Rat(value.n, value.d)
    ELSE IF value.kind = "str"
    THEN LET s == value.s
             tryHex == StartsWith(s, <<"0", "x">>) \/ (Len(s) > 0 /\ AllHex(s))
         IN  IF tryHex /\ IntBase16(s).ok THEN IntBase16(s).v
             ELSE IF RegularNumeric(s).ok THEN RegularNumeric(s).v
             ELSE RatInt(0)
    ELSE RatInt(0)

DEFAULT_DECIMALS == 18

get_currency_decimals(pool_event, currency) ==
    LET pool == Get(pool_event, "Pool", EmptyDict)
        currency_obj == IF currency = "A" THEN Get(pool, "CurrencyA", EmptyDict)
                        ELSE Get(pool, "CurrencyB", EmptyDict)
    IN  Get(currency_obj, "Decimals", DEFAULT_DECIMALS)

(***************************************************************************)
(* bitquery.py                                                             *)
(***************************************************************************)
numeric_hex_fields ==
    {"Number", "BaseFee", "ParentNumber", "PreBalance", "PostBalance",
     "MaxAmountIn", "MaxAmountOut", "MinAmountOut", "MinAmountIn",
     "AmountCurrencyA", "AmountCurrencyB"}

numeric_fields == {"SlippageBasisPoints", "Price", "AtoBPrice", "BtoAPrice"}

\* The number a parse yielded, as a Python value.
NumOf(v) == Frac(v.n, v.d)

\* The "decimal conversion" of lines 80-84 and 89-93: float(value) when the
\* string holds a ".", int(value) otherwise.
DecimalConversion(s) == IF HasDot(s) THEN FloatOf(s) ELSE IntBase10(s)

\* (mutant) the hex-first branch trying decimal first.
HexFirst_DecimalFirst(value) ==
    IF DecimalConversion(value.s).ok THEN NumOf(DecimalConversion(value.s).v)
    ELSE IF IntBase16(value.s).ok THEN NumOf(IntBase16(value.s).v)
    ELSE value

\* Lines 75-86.
HexFirst(value) ==
    IF IntBase16(value.s).ok THEN NumOf(IntBase16(value.s).v)
    ELSE IF DecimalConversion(value.s).ok THEN NumOf(DecimalConversion(value.s).v)
    ELSE value

\* Lines 88-99.
DecimalFirst(value) ==
    IF DecimalConversion(value.s).ok THEN NumOf(DecimalConversion(value.s).v)
    ELSE IF IntBase16(value.s).ok THEN NumOf(IntBase16(value.s).v)
    ELSE value

IsNonEmptyStr(value) == value.kind = "str" /\ value.s # << >>

\* What convert_hex_to_int stores under key for a value that is not a dict
\* or a list (lines 74-103).
ConvertField(key, value) ==
    IF key \in numeric_hex_fields /\ IsNonEmptyStr(value) THEN HexFirst(value)
    ELSE IF key \in numeric_fields /\ IsNonEmptyStr(value) THEN DecimalFirst(value)
    ELSE value

(***************************************************************************)
(* price_impact.py                                                         *)
(***************************************************************************)
NoImpact == << >>

\* (mutant) a band that leaves out its two ends.
InImpactBand_Exclusive(slippage_bp) ==
    /\ RatLt(RatInt(MIN_IMPACT_BASIS_POINTS), slippage_bp)
    /\ RatLt(slippage_bp, RatInt(MAX_IMPACT_BASIS_POINTS))

\* The slippage band test of line 87.
InImpactBand(slippage_bp) ==
    /\ RatLe(RatInt(MIN_IMPACT_BASIS_POINTS), slippage_bp)
    /\ RatLe(slippage_bp, RatInt(MAX_IMPACT_BASIS_POINTS))

\* Lines 100-101.
LiquidityRatio(max_amount_in, base_liquidity) ==
    IF RatLt(RatInt(0), base_liquidity) THEN RatDiv(max_amount_in, base_liquidity)
    ELSE RatInt(0)

\* abs(1.0 - (price / mid_price)) * 10000
ImpactBasisPoints(price, mid_price) ==
    RatMul(RatAbs(RatSub(RatInt(1), RatDiv(price, mid_price))), RatInt(10000))

\* The body of the loop of lines 81-104 on the tier's numbers: << >> when
\* the tier is skipped (continue), else <<result>>.
TierDecision(direction, slippage_bp, max_amount_in, price, mid_price, base_liquidity) ==
    IF ~InImpactBand(slippage_bp) THEN << >>
    ELSE IF RatIsZero(mid_price) THEN << >>
    ELSE IF RatLe(MIN_LIQUIDITY_RATIO, LiquidityRatio(max_amount_in, base_liquidity))
    THEN <<[impact_bp |-> ImpactBasisPoints(price, mid_price),
            direction |-> direction,
            swap_size |-> max_amount_in]>>
    ELSE << >>

TierResult(pool_price_table, direction, amount_a, amount_b, tier) ==
    TierDecision(direction,
                 safe_to_numeric(Get(tier, "SlippageBasisPoints", Num(0))),
                 safe_to_numeric(Get(tier, "MaxAmountIn", Num(0))),
                 safe_to_numeric(Get(tier, "Price", Num(1))),
                 safe_to_numeric(Get(pool_price_table, direction \o "Price", Num(1))),
                 IF direction = "AtoB" THEN amount_a ELSE amount_b)

\* for tier in reversed(price_tiers): the first tier, from index k down, that returns.
RECURSIVE ScanTiers(_, _, _, _, _, _)
ScanTiers(pool_price_table, direction, amount_a, amount_b, price_tiers, k) ==
    IF k = 0 THEN NoImpact
    ELSE IF TierResult(pool_price_table, direction, amount_a, amount_b,
                       price_tiers[k]) # << >>
    THEN TierResult(pool_price_table, direction, amount_a, amount_b, price_tiers[k])
    ELSE ScanTiers(pool_price_table, direction, amount_a, amount_b, price_tiers, k - 1)

check_direction(pool_price_table, direction, amount_a, amount_b) ==
    ScanTiers(pool_price_table, direction, amount_a, amount_b,
              Get(pool_price_table, direction \o "Prices", << >>),
              Len(Get(pool_price_table, direction \o "Prices", << >>)))

\* (mutant) the directions tried in the other order.
DirectionOrder_BtoAFirst == <<"BtoA", "AtoB">>

\* The order in which calculate_price_impact tries the directions.
DirectionOrder == <<"AtoB", "BtoA">>

\* Lines 38-52: the first direction's result if there is one, else the second's.
FirstImpact(first, second) == IF first # NoImpact THEN first ELSE second

\* (mutant) no test of the reserves.
ImpactOfTable_NoReserveTest(pool_price_table, amount_a, amount_b) ==
    IF DOMAIN pool_price_table = {} THEN NoImpact
    ELSE FirstImpact(
            check_direction(pool_price_table, DirectionOrder[1], amount_a, amount_b),
            check_direction(pool_price_table, DirectionOrder[2], amount_a, amount_b))

\* Lines 28-52 on the table and the two reserves.
ImpactOfTable(pool_price_table, amount_a, amount_b) ==
    IF DOMAIN pool_price_table = {} THEN NoImpact
    ELSE IF RatIsZero(amount_a) \/ RatIsZero(amount_b) THEN NoImpact
    ELSE FirstImpact(
            check_direction(pool_price_table, DirectionOrder[1], amount_a, amount_b),
            check_direction(pool_price_table, DirectionOrder[2], amount_a, amount_b))

calculate_price_impact(pool_event) ==
    ImpactOfTable(
        Get(pool_event, "PoolPriceTable", EmptyDict),
        safe_to_numeric(Get(Get(pool_event, "Liquidity", EmptyDict),
                            "AmountCurrencyA", Num(0))),
        safe_to_numeric(Get(Get(pool_event, "Liquidity", EmptyDict),
                            "AmountCurrencyB", Num(0))))

(***************************************************************************)
(* position_sizing.py                                                      *)
(***************************************************************************)
\* (mutant) a factor that grows with the impact.
ImpactFactor_Growing(impact_bp) ==
    RatMax(Rat(1, 10), RatDiv(impact_bp, RatInt(1000)))

\* max(0.1, 1 / (1 + impact_bp / 1000))
ImpactFactor(impact_bp) ==
    RatMax(Rat(1, 10),
           RatDiv(RatInt(1), RatAdd(RatInt(1), RatDiv(impact_bp, RatInt(1000)))))

\* (mutant) a size with no minimum.
PositionSize_NoMinimum(base_liquidity, decimals, impact_bp) ==
    IF RatIsZero(base_liquidity) THEN RatInt(0)
    ELSE RatMul(RatMul(base_liquidity,
                       Rat(MAX_POSITION_SIZE_RATIO.n, MAX_POSITION_SIZE_RATIO.d)),
                ImpactFactor(impact_bp))

\* Lines 45-65 on the bought currency's reserve and decimals.
PositionSize(base_liquidity, decimals, impact_bp) ==
    IF RatIsZero(base_liquidity) THEN RatInt(0)
    ELSE RatMax(RatMul(RatMul(base_liquidity,
                              Rat(MAX_POSITION_SIZE_RATIO.n, MAX_POSITION_SIZE_RATIO.d)),
                       ImpactFactor(impact_bp)),
                RatMul(Rat(MIN_POSITION_SIZE.n, MIN_POSITION_SIZE.d),
                       RatInt(Pow10(decimals))))

\* (mutant) a size taken from the reserve and decimals of the currency the
\* fade sells.
calculate_position_size_SoldSide(pool_event, impact_bp, fade_direction) ==
    PositionSize(
        safe_to_numeric(Get(Get(pool_event, "Liquidity", EmptyDict),
                            IF fade_direction = "BtoA" THEN "AmountCurrencyB"
                            ELSE "AmountCurrencyA",
                            Num(0))),
        get_currency_decimals(pool_event, IF fade_direction = "BtoA" THEN "B" ELSE "A"),
        impact_bp)

calculate_position_size(pool_event, impact_bp, fade_direction) ==
    PositionSize(
        safe_to_numeric(Get(Get(pool_event, "Liquidity", EmptyDict),
                            IF fade_direction = "BtoA" THEN "AmountCurrencyA"
                            ELSE "AmountCurrencyB",
                            Num(0))),
        get_currency_decimals(pool_event, IF fade_direction = "BtoA" THEN "A" ELSE "B"),
        impact_bp)

(***************************************************************************)
(* flow_detector.py                                                        *)
(***************************************************************************)
\* deque(seq, maxlen=10): only the last maxlen items are retained.
RECURSIVE DequeOf(_)
DequeOf(s) == IF Len(s) > HISTORY_MAXLEN THEN DequeOf(Tail(s)) ELSE s

\* (mutant) an append that never drops the oldest item.
DequeAppend_Unbounded(dq, x) == Append(dq, x)

\* deque.append on a bounded deque: the oldest item falls out when full.
DequeAppend(dq, x) == DequeOf(Append(dq, x))

\* The window test of the list comprehension (lines 37-40).
InWindow(event, current_time) ==
    current_time - event.time < FLOW_DETECTION_WINDOW_SECONDS

RecentEvents(history, current_time) ==
    SelectSeq(history, LAMBDA event : InWindow(event, current_time))

SameDirectionCount(recent_events, direction) ==
    Len(SelectSeq(recent_events, LAMBDA event : event.direction = direction))

\* The history a pool id has on entry: created empty on first observation.
HistoryOf(peh, pool_id) ==
    IF pool_id \in DOMAIN peh THEN peh[pool_id] ELSE <<>>

\* The deque stored for the pool by lines 49-53.
UpdatedHistory(history, direction, current_time) ==
    DequeAppend(DequeOf(RecentEvents(history, current_time)),
                [direction |-> direction, time |-> current_time])

\* (mutant) one history shared by the pools: the record goes to every pool.
HistoryAfterCall_Shared(peh, pool_id, direction, current_time) ==
    [p \in DOMAIN peh \cup {pool_id} |->
        UpdatedHistory(HistoryOf(peh, p), direction, current_time)]

\* pool_event_history after the call.
HistoryAfterCall(peh, pool_id, direction, current_time) ==
    [p \in DOMAIN peh \cup {pool_id} |->
        IF p = pool_id
        THEN UpdatedHistory(HistoryOf(peh, pool_id), direction, current_time)
        ELSE peh[p]]

\* (mutant) a strict comparison with the threshold.
IsIsolatedVerdict_Strict(same_direction_count) ==
    same_direction_count < MAX_SAME_DIRECTION_EVENTS

\* The verdict (line 56).
IsIsolatedVerdict(same_direction_count) ==
    same_direction_count <= MAX_SAME_DIRECTION_EVENTS

is_isolated_shock(peh, pool_id, direction, current_time) ==
    LET history == HistoryOf(peh, pool_id)
        recent_events == RecentEvents(history, current_time)
        same_direction_count == SameDirectionCount(recent_events, direction)
    IN  [history |-> HistoryAfterCall(peh, pool_id, direction, current_time),
         result |-> IsIsolatedVerdict(same_direction_count)]

(***************************************************************************)
(* signal_generator.py                                                     *)
(***************************************************************************)
\* TransactionHeader.Time is a nanosecond count, kept as whole seconds s
\* and the nanoseconds ns < 10^9 left over: Time // 1_000_000_000 is s.
NANOS_PER_SECOND == 1000000000

ZeroTime == [s |-> 0, ns |-> 0]

NanosToSeconds(t) == t.s + (t.ns \div NANOS_PER_SECOND)

EventPoolId(pool_event) == Get(Get(pool_event, "Pool", EmptyDict), "PoolId", "")

EventTime(pool_event) ==
    NanosToSeconds(Get(Get(pool_event, "TransactionHeader", EmptyDict), "Time", ZeroTime))

\* (mutant) a registry that never reports a position.
HasPosition_Never(positions, pool_id) == FALSE

\* pool_id in active_positions
HasPosition(positions, pool_id) == pool_id \in DOMAIN positions

\* (mutant) a veto that only a pending position gives.
FadeDecision_PendingOnly(positions, pool_id, direction, shock) ==
    [result |-> shock.result
                    /\ ~(HasPosition(positions, pool_id)
                            /\ positions[pool_id].status = "pending"),
     history |-> shock.history,
     classified |-> <<[result |-> shock.result, direction |-> direction]>>]

\* Lines 45-54 on the classifier's answer: the verdict, the flow histories
\* left, and the classifier's verdict with the direction it was asked about.
FadeDecision(positions, pool_id, direction, shock) ==
    [result |-> shock.result /\ ~HasPosition(positions, pool_id),
     history |-> shock.history,
     classified |-> <<[result |-> shock.result, direction |-> direction]>>]

\* (mutant) a decision that looks at the registry first and does not ask
\* the classifier about a pool that has a position.
should_fade_RegistryFirst(peh, positions, pool_event, impact_data) ==
    IF EventPoolId(pool_event) = "" \/ HasPosition(positions, EventPoolId(pool_event))
    THEN [result |-> FALSE, history |-> peh, classified |-> << >>]
    ELSE FadeDecision(positions, EventPoolId(pool_event), impact_data.direction,
                      is_isolated_shock(peh, EventPoolId(pool_event),
                                        impact_data.direction, EventTime(pool_event)))

should_fade(peh, positions, pool_event, impact_data) ==
    IF EventPoolId(pool_event) = ""
    THEN [result |-> FALSE, history |-> peh, classified |-> << >>]
    ELSE FadeDecision(positions, EventPoolId(pool_event), impact_data.direction,
                      is_isolated_shock(peh, EventPoolId(pool_event),
                                        impact_data.direction, EventTime(pool_event)))

\* (mutant) a fade on the side of the swap.
OppositeDirection_Same(direction) == direction

\* 'BtoA' if direction == 'AtoB' else 'AtoB'
OppositeDirection(direction) == IF direction = "AtoB" THEN "BtoA" ELSE "AtoB"

\* (mutant) an entry time with no wait.
EntryTime_NoWait(now) == now

\* time.time() + config.WAIT_TIME_SECONDS
EntryTime(now) == now + WAIT_TIME_SECONDS

create_fade_signal(pool_event, impact_data, now) ==
    LET pool == Get(pool_event, "Pool", EmptyDict)
        direction == impact_data.direction
        fade_direction == OppositeDirection(direction)
        decimals_a == get_currency_decimals(pool_event, "A")
        decimals_b == get_currency_decimals(pool_event, "B")
    IN  [pool_id |-> Get(pool, "PoolId", ""),
         pool_address |-> Get(pool, "SmartContract", ""),
         currency_a |-> Get(Get(pool, "CurrencyA", EmptyDict), "Symbol", ""),
         currency_b |-> Get(Get(pool, "CurrencyB", EmptyDict), "Symbol", ""),
         swap_direction |-> direction,
         fade_direction |-> fade_direction,
         impact_basis_points |-> impact_data.impact_bp,
         swap_size |-> impact_data.swap_size,
         swap_size_decimals |-> IF direction = "AtoB" THEN decimals_a ELSE decimals_b,
         position_size |->
             calculate_position_size(pool_event, impact_data.impact_bp, fade_direction),
         position_size_decimals |->
             IF fade_direction = "BtoA" THEN decimals_a ELSE decimals_b,
         entry_time |-> EntryTime(now),
         stop_loss_bp |-> STOP_LOSS_BASIS_POINTS,
         take_profit_bp |-> TAKE_PROFIT_BASIS_POINTS,
         status |-> "pending"]

\* active_positions[pool_id] = signal
add_position(positions, pool_id, signal) ==
    [p \in DOMAIN positions \cup {pool_id} |->
        IF p = pool_id THEN signal ELSE positions[p]]

(***************************************************************************)
(* position_manager.py                                                     *)
(***************************************************************************)
\* (mutant) an entry gate that is always open.
EntryTimePassed_Always(now, position) == TRUE

\* not (time.time() < position['entry_time'])
EntryTimePassed(now, position) == ~(now < position.entry_time)

\* (mutant) a monitor that marks a position closed once it was entered.
StatusAfterEntry_Closes(status) ==
    IF status = "pending" THEN "entered" ELSE "closed"

\* Lines 36-37: pending becomes entered, any other status stays.
StatusAfterEntry(status) == IF status = "pending" THEN "entered" ELSE status

\* (mutant) a monitor that enters every position that is due, whatever the
\* event's pool.
monitor_positions_AnyPool(positions, current_pool_state, now) ==
    [p \in DOMAIN positions |->
        IF EntryTimePassed(now, positions[p])
        THEN [positions[p] EXCEPT !.status = StatusAfterEntry(@)]
        ELSE positions[p]]

\* (mutant) a monitor that drops a position once it is entered.
monitor_positions_Exits(positions, current_pool_state, now) ==
    LET pool_id == EventPoolId(current_pool_state)
    IN  IF pool_id \notin DOMAIN positions THEN positions
        ELSE IF ~EntryTimePassed(now, positions[pool_id]) THEN positions
        ELSE IF positions[pool_id].status = "entered"
        THEN [p \in DOMAIN positions \ {pool_id} |-> positions[p]]
        ELSE [positions EXCEPT ![pool_id].status = StatusAfterEntry(@)]

monitor_positions(positions, current_pool_state, now) ==
    LET pool_id == EventPoolId(current_pool_state)
    IN  IF pool_id \notin DOMAIN positions THEN positions
        ELSE IF ~EntryTimePassed(now, positions[pool_id]) THEN positions
        ELSE [positions EXCEPT ![pool_id].status = StatusAfterEntry(@)]

(***************************************************************************)
(* strategy.py                                                             *)
(***************************************************************************)
\* Lines 55-79 on should_fade's answer and the signal create_fade_signal
\* builds when that answer is yes.
FadeOutcome(positions, pool_id, fade, signal) ==
    IF fade.result
    THEN [history |-> fade.history,
          positions |-> add_position(positions, pool_id, signal),
          signal |-> <<signal>>,
          classified |-> fade.classified]
    ELSE [history |-> fade.history, positions |-> positions,
          signal |-> << >>, classified |-> fade.classified]

\* (mutant) an event without impact that is put on its pool's flow history
\* all the same.
ImpactOutcome_Records(peh, positions, pool_event, now, impact_data) ==
    IF impact_data = NoImpact
    THEN [history |-> HistoryAfterCall(peh, EventPoolId(pool_event), "AtoB",
                                       EventTime(pool_event)),
          positions |-> positions, signal |-> << >>, classified |-> << >>]
    ELSE FadeOutcome(positions, EventPoolId(pool_event),
                     should_fade(peh, positions, pool_event, impact_data[1]),
                     create_fade_signal(pool_event, impact_data[1], now))

\* Lines 36-79 on the impact found.
ImpactOutcome(peh, positions, pool_event, now, impact_data) ==
    IF impact_data = NoImpact
    THEN [history |-> peh, positions |-> positions,
          signal |-> << >>, classified |-> << >>]
    ELSE FadeOutcome(positions, EventPoolId(pool_event),
                     should_fade(peh, positions, pool_event, impact_data[1]),
                     create_fade_signal(pool_event, impact_data[1], now))

\* process_pool_event: the flow histories and the registry it leaves, the
\* signal it returns (<< >> for None) and the classifier's verdict if called.
process_pool_event(peh, positions, pool_event, now) ==
    IF EventPoolId(pool_event) = ""
    THEN [history |-> peh, positions |-> positions,
          signal |-> << >>, classified |-> << >>]
    ELSE ImpactOutcome(peh, positions, pool_event, now,
                       calculate_price_impact(pool_event))

\* Fields the code uses as numbers without coercing them: a str there
\* raises TypeError.  Decimals is the exponent of 10 ** decimals
\* (utils.py:66 under format_amount, position_sizing.py:61); Time is the
\* dividend of Time // 1_000_000_000 (signal_generator.py:42).
UncoercedFields == {"Decimals", "Time"}

NoError == ""

\* The exception process_pool_event lets out, given the fields of the
\* event that arrive as str: none before the impact is found (lines
\* 29-39), then format_amount on the swap size (line 52), then should_fade
\* (line 55).
ProcessError(pool_event, strings) ==
    IF EventPoolId(pool_event) = "" THEN NoError
    ELSE IF calculate_price_impact(pool_event) = NoImpact THEN NoError
    ELSE IF "Decimals" \in strings THEN "TypeError at utils.py:66"
    ELSE IF "Time" \in strings THEN "TypeError at signal_generator.py:42"
    ELSE NoError

\* One pass of handle_message's loop body over an event: monitor_positions,
\* then process_pool_event unless it raises, which leaves the registry and
\* the histories as monitor_positions left them.
LoopBody(peh, positions, pool_event, strings, now) ==
    LET monitored == monitor_positions(positions, pool_event, now)
        error == ProcessError(pool_event, strings)
    IN  IF error = NoError
        THEN [error |-> NoError,
              outcome |-> process_pool_event(peh, monitored, pool_event, now)]
        ELSE [error |-> error,
              outcome |-> [history |-> peh, positions |-> monitored,
                           signal |-> << >>, classified |-> << >>]]

\* (mutant) a loop body that decides before it advances the registry.
FirstStep_Process == "process"

\* The step handle_message's loop takes first for each event (line 93).
FirstStep == "monitor"

(***************************************************************************)
(* Observation of the classifier: the run of calls a pool has seen since   *)
(* it had no history.  ordered: every call of the run had the direction of *)
(* the first and a time t with first <= previous <= t < first + window.    *)
(* A run that is no longer ordered is not followed further.                *)
(***************************************************************************)
NoRun == [n |-> 0, direction |-> "AtoB", first |-> 0, last |-> 0, ordered |-> TRUE]

BrokenRun == [n |-> 0, direction |-> "AtoB", first |-> 0, last |-> 0, ordered |-> FALSE]

RunAfterCall(run, direction, current_time) ==
    IF run = NoRun
    THEN [n |-> 1, direction |-> direction, first |-> current_time,
          last |-> current_time, ordered |-> TRUE]
    ELSE IF /\ run.ordered
            /\ direction = run.direction
            /\ run.last <= current_time
            /\ current_time - run.first < FLOW_DETECTION_WINDOW_SECONDS
         THEN [run EXCEPT !.n = IF @ < MaxRun THEN @ + 1 ELSE @, !.last = current_time]
         ELSE BrokenRun

(***************************************************************************)
(* SpecFlow: is_isolated_shock called directly, on an ordered stream of    *)
(* event times that steps across the window's edge.                        *)
(***************************************************************************)
FlowSteps == {0, FLOW_DETECTION_WINDOW_SECONDS - 1, FLOW_DETECTION_WINDOW_SECONDS}

\* The pipeline at rest, before any message.
PipelineIdle ==
    /\ active_positions = << >>
    /\ clock = 0
    /\ pool_events = << >>
    /\ pc = "poll"
    /\ n_events = 0
    /\ last_step = << >>
    /\ born = [p \in PoolIds |-> 0]

\* No pure function is under study.
PureIdle ==
    /\ size_case = << >>
    /\ coerce_case = << >>
    /\ soft_case = << >>
    /\ signal_case = << >>

\* A second run of the strategy before its first event: its wall clock, its
\* registry and flow histories, and what its last step returned or printed.
FreshRun ==
    [clock |-> 0, active_positions |-> << >>, pool_event_history |-> << >>,
     signal |-> << >>, entered |-> FALSE]

FlowInit ==
    /\ pool_event_history = << >>
    /\ last_call = << >>
    /\ flow_run = [p \in PoolIds |-> NoRun]
    /\ call_clock = 0
    /\ impact_case = << >>
    /\ other_run = FreshRun
    /\ PipelineIdle
    /\ PureIdle

\* What is recorded of a call: its arguments and its verdict.  seq flips at
\* every call, so that two equal calls in a row are still two calls.
CallRecord(prev, pool_id, direction, current_time, result) ==
    <<[pool_id |-> pool_id, direction |-> direction,
       current_time |-> current_time, result |-> result,
       seq |-> IF prev = << >> THEN 0 ELSE 1 - prev[1].seq]>>

Classify(pool_id, direction, current_time) ==
    LET r == is_isolated_shock(pool_event_history, pool_id, direction, current_time)
    IN  /\ pool_event_history' = r.history
        /\ last_call' = CallRecord(last_call, pool_id, direction, current_time, r.result)
        /\ flow_run' = [flow_run EXCEPT
                            ![pool_id] = RunAfterCall(@, direction, current_time)]

FlowPools == {"p1"}

FlowCall ==
    \E pool_id \in FlowPools, direction \in Directions, step \in FlowSteps :
        /\ call_clock + step <= MaxFlowTime
        /\ call_clock' = call_clock + step
        /\ Classify(pool_id, direction, call_clock + step)
        /\ UNCHANGED <<pipeline_vars, impact_case, other_run, pure_vars>>

FlowNext == FlowCall

SpecFlow == FlowInit /\ [][FlowNext]_vars

(***************************************************************************)
(* Spec: strategy.main feeding handle_message.  A message is a list of     *)
(* pool events; each is run through monitor_positions and then through     *)
(* process_pool_event.  The wall clock advances on its own.                *)
(***************************************************************************)
QualifyingTier ==
    [SlippageBasisPoints |-> Num(80), MaxAmountIn |-> Num(50), Price |-> Frac(95, 100)]

TableAtoB ==
    [AtoBPrices |-> <<QualifyingTier>>, AtoBPrice |-> Num(1),
     BtoAPrices |-> << >>, BtoAPrice |-> Num(1)]

TableBtoA ==
    [AtoBPrices |-> << >>, AtoBPrice |-> Num(1),
     BtoAPrices |-> <<QualifyingTier>>, BtoAPrice |-> Num(1)]

\* The price tables of the pipeline's events; the empty one stands for a
\* missing table.
PipelineTables == {EmptyDict, TableAtoB, TableBtoA}

\* Event times (seconds) of the pipeline's events, in any order.
PipelineTimes == {0, FLOW_DETECTION_WINDOW_SECONDS}

MkEvent(pool_id, seconds, table) ==
    [Pool |-> [PoolId |-> pool_id,
               CurrencyA |-> [Symbol |-> "A", Decimals |-> 2],
               CurrencyB |-> [Symbol |-> "B", Decimals |-> 3]],
     TransactionHeader |-> [Time |-> [s |-> seconds, ns |-> 0]],
     PoolPriceTable |-> table,
     Liquidity |-> [AmountCurrencyA |-> Num(400), AmountCurrencyB |-> Num(500)]]

\* Events of pool p1 at every time and with every table, one qualifying
\* event of pool p2, and one event without a pool id.
PipelineEvents ==
    {MkEvent("p1", t, tb) : t \in PipelineTimes, tb \in PipelineTables}
        \cup {MkEvent("p2", 0, TableAtoB), MkEvent("", 0, TableAtoB)}

Messages ==
    UNION {[1..k -> PipelineEvents] : k \in 1..MaxMsgLen}

Init ==
    /\ pool_event_history = << >>
    /\ last_call = << >>
    /\ flow_run = [p \in PoolIds |-> NoRun]
    /\ call_clock = 0
    /\ impact_case = << >>
    /\ other_run = FreshRun
    /\ PipelineIdle
    /\ PureIdle

SecondStep == IF FirstStep = "monitor" THEN "process" ELSE "monitor"

\* Control after a step of the loop body: on to the body's second step, or
\* on to the next event of the list, or back to polling.
Advance(step) ==
    IF step = FirstStep
    THEN /\ pc' = SecondStep
         /\ UNCHANGED <<pool_events, n_events>>
    ELSE /\ pool_events' = Tail(pool_events)
         /\ n_events' = IF n_events < MaxEvents THEN n_events + 1 ELSE n_events
         /\ pc' = IF Tail(pool_events) = << >> THEN "poll" ELSE FirstStep

\* What is recorded of a step of the loop body: which call it was, on which
\* event of the stream (by number) and pool, the signal returned, the
\* classifier's answer if it was asked, and whether [ENTERED] was printed.
\* seq flips at every step.
StepRecord(prev, op, event_no, pool_id, signal, classified, entered) ==
    <<[op |-> op, event_no |-> event_no, pool_id |-> pool_id, signal |-> signal,
       classified |-> classified, entered |-> entered,
       seq |-> IF prev = << >> THEN 0 ELSE 1 - prev[1].seq]>>

\* if position['status'] == 'pending': ... print("[ENTERED] ...")
PrintsEntered(positions, pool_id, now) ==
    /\ pool_id \in DOMAIN positions
    /\ EntryTimePassed(now, positions[pool_id])
    /\ positions[pool_id].status = "pending"

\* stream.poll() returns a message and handle_message starts on its events.
Poll ==
    /\ pc = "poll"
    /\ \E msg \in Messages :
          /\ n_events + Len(msg) <= MaxEvents
          /\ pool_events' = msg
    /\ pc' = FirstStep
    /\ UNCHANGED <<pool_event_history, active_positions, clock, n_events, last_step,
                   born, last_call, flow_run, side_vars>>

\* The state after monitor_positions(pool_event).
Monitored(pool_event) ==
    /\ active_positions' = monitor_positions(active_positions, pool_event, clock)
    /\ last_step' = StepRecord(last_step, "monitor", n_events + 1,
                               EventPoolId(pool_event), << >>, << >>,
                               PrintsEntered(active_positions,
                                             EventPoolId(pool_event), clock))
    /\ UNCHANGED <<pool_event_history, clock, born, last_call, flow_run>>

\* monitor_positions(pool_event)
MonitorPositions ==
    /\ pc = "monitor"
    /\ Monitored(Head(pool_events))
    /\ Advance("monitor")
    /\ UNCHANGED side_vars

\* The state after process_pool_event returned r for pool_event.
Processed(pool_event, pool_id, event_time, r) ==
    /\ pool_event_history' = r.history
    /\ active_positions' = r.positions
    /\ last_step' = StepRecord(last_step, "process", n_events + 1, pool_id, r.signal,
                               r.classified, FALSE)
    /\ born' = IF r.signal = << >> THEN born
               ELSE [born EXCEPT ![pool_id] = n_events + 1]
    /\ IF r.classified = << >>
       THEN UNCHANGED <<last_call, flow_run>>
       ELSE /\ last_call' = CallRecord(last_call, pool_id, r.classified[1].direction,
                                       event_time, r.classified[1].result)
            /\ flow_run' = [flow_run EXCEPT ![pool_id] =
                               RunAfterCall(@, r.classified[1].direction, event_time)]

\* process_pool_event(pool_event)
ProcessPoolEvent ==
    /\ pc = "process"
    /\ \E r \in {process_pool_event(pool_event_history, active_positions,
                                     Head(pool_events), clock)} :
          Processed(Head(pool_events), EventPoolId(Head(pool_events)),
                    EventTime(Head(pool_events)), r)
    /\ Advance("process")
    /\ UNCHANGED <<clock, side_vars>>

\* The wall clock moves on.
Tick ==
    /\ clock < MaxClock
    /\ clock' = clock + 1
    /\ UNCHANGED <<pool_event_history, active_positions, pool_events, pc, n_events,
                   last_step, born, last_call, flow_run, side_vars>>

Next == Poll \/ MonitorPositions \/ ProcessPoolEvent \/ Tick

Spec == Init /\ [][Next]_vars

(***************************************************************************)
(* SpecTwoRuns: two runs of the strategy fed the same events, step by      *)
(* step, each with a wall clock of its own.  The first run is the          *)
(* pipeline's variables, the second is other_run.                          *)
(***************************************************************************)
OtherMonitored(pool_event, run) ==
    other_run' = [run EXCEPT
        !.active_positions = monitor_positions(@, pool_event, run.clock),
        !.signal = << >>,
        !.entered = PrintsEntered(run.active_positions, EventPoolId(pool_event),
                                  run.clock)]

OtherProcessed(run, r) ==
    other_run' = [run EXCEPT !.pool_event_history = r.history,
                             !.active_positions = r.positions,
                             !.signal = r.signal,
                             !.entered = FALSE]

\* The events both runs are fed: with or without a qualifying AtoB tier.
TwoRunEvents == {MkEvent(p, 0, tb) : p \in PoolIds, tb \in {EmptyDict, TableAtoB}}

TwoPoll ==
    /\ pc = "poll"
    /\ \E msg \in UNION {[1..k -> TwoRunEvents] : k \in 1..MaxMsgLen} :
          /\ n_events + Len(msg) <= MaxEvents
          /\ pool_events' = msg
    /\ pc' = FirstStep
    /\ UNCHANGED <<pool_event_history, active_positions, clock, n_events, last_step,
                   born, last_call, flow_run, side_vars>>

TwoMonitor ==
    /\ pc = "monitor"
    /\ Monitored(Head(pool_events))
    /\ OtherMonitored(Head(pool_events), other_run)
    /\ Advance("monitor")
    /\ UNCHANGED <<call_clock, impact_case, pure_vars>>

TwoProcess ==
    /\ pc = "process"
    /\ Processed(Head(pool_events), EventPoolId(Head(pool_events)),
                 EventTime(Head(pool_events)),
                 process_pool_event(pool_event_history, active_positions,
                                    Head(pool_events), clock))
    /\ OtherProcessed(other_run,
                      process_pool_event(other_run.pool_event_history,
                                         other_run.active_positions,
                                         Head(pool_events), other_run.clock))
    /\ Advance("process")
    /\ UNCHANGED <<clock, call_clock, impact_case, pure_vars>>

\* The second run's wall clock moves on.
OtherTick ==
    /\ other_run.clock < MaxClock
    /\ other_run' = [other_run EXCEPT !.clock = @ + 1]
    /\ UNCHANGED <<flow_vars, pipeline_vars, call_clock, impact_case, pure_vars>>

TwoNext == TwoPoll \/ TwoMonitor \/ TwoProcess \/ Tick \/ OtherTick

SpecTwoRuns == Init /\ [][TwoNext]_vars

(***************************************************************************)
(* SpecLive: the pipeline on a stream that never ends, every step of it    *)
(* taken eventually: the consumer keeps polling, the loop body keeps       *)
(* running, the wall clock keeps moving up to MaxClock.                    *)
(***************************************************************************)
LivePools == {"p1"}

\* Events of the live pools with and without a qualifying tier, and an
\* event of another pool that never qualifies.
LiveEvents ==
    {MkEvent(p, 0, tb) : p \in LivePools, tb \in {EmptyDict, TableAtoB}}
        \cup {MkEvent("p2", 0, EmptyDict)}

LivePoll ==
    /\ pc = "poll"
    /\ \E pool_event \in LiveEvents : pool_events' = <<pool_event>>
    /\ pc' = FirstStep
    /\ UNCHANGED <<pool_event_history, active_positions, clock, n_events, last_step,
                   born, last_call, flow_run, side_vars>>

LiveNext == LivePoll \/ MonitorPositions \/ ProcessPoolEvent \/ Tick

\* The call the loop is at returns: control leaves step.  Only LivePoll
\* leaves "poll", only MonitorPositions leaves "monitor" and only
\* ProcessPoolEvent leaves "process", and each is enabled whenever control
\* is at its step, so weak fairness of Returns(step) is weak fairness of
\* that action.
Returns(step) ==
    /\ pc = step
    /\ pc' \in {"poll", "monitor", "process"} \ {step}

SpecLive ==
    /\ Init
    /\ [][LiveNext]_vars
    /\ WF_pc(Returns("poll"))
    /\ WF_pc(Returns("monitor"))
    /\ WF_pc(Returns("process"))
    /\ WF_vars(Tick)

(***************************************************************************)
(* SpecImpact: calculate_price_impact applied to one event, drawn from     *)
(* tables whose tiers sit on and around the slippage band and the          *)
(* liquidity-ratio threshold, with mid prices that may be zero.            *)
(***************************************************************************)
Tier(slippage_bp, max_amount_in, price) ==
    [SlippageBasisPoints |-> Num(slippage_bp), MaxAmountIn |-> Num(max_amount_in),
     Price |-> price]

ImpactTiers ==
    {Tier(MIN_IMPACT_BASIS_POINTS, 40, Frac(95, 100)),
     Tier(MAX_IMPACT_BASIS_POINTS, 50, Frac(90, 100)),
     Tier(MIN_IMPACT_BASIS_POINTS - 1, 50, Frac(95, 100)),
     Tier(MAX_IMPACT_BASIS_POINTS + 1, 50, Frac(95, 100)),
     Tier(80, 39, Frac(95, 100))}

TierLists == UNION {[1..k -> ImpactTiers] : k \in 0..MaxTiers}

\* The BtoA side's tiers: one that qualifies, one outside the band and one
\* too small for the reserve.
BtoATiers ==
    {Tier(MAX_IMPACT_BASIS_POINTS, 50, Frac(90, 100)),
     Tier(MIN_IMPACT_BASIS_POINTS - 1, 50, Frac(95, 100)),
     Tier(80, 39, Frac(95, 100))}

BtoATierLists == UNION {[1..k -> BtoATiers] : k \in 0..MaxTiers}

MidPrices == {Num(0), Num(1)}

Reserves == {Num(0), Num(400)}

ImpactEvent(atob, btoa, mid_atob, mid_btoa, amount_a, amount_b) ==
    [Pool |-> [PoolId |-> "p1"],
     PoolPriceTable |-> [AtoBPrices |-> atob, AtoBPrice |-> mid_atob,
                         BtoAPrices |-> btoa, BtoAPrice |-> mid_btoa],
     Liquidity |-> [AmountCurrencyA |-> amount_a, AmountCurrencyB |-> amount_b]]

NoTableEvent(amount_a, amount_b) ==
    [Pool |-> [PoolId |-> "p1"],
     Liquidity |-> [AmountCurrencyA |-> amount_a, AmountCurrencyB |-> amount_b]]

\* Reserves as the stream may spell them: numbers or strings.
SpelledReserves ==
    {Num(0), Num(400), Str(<<"0">>), Str(<<"0", ".", "0">>), Str(<<"0", "x", "0">>),
     Str(<<"4", "0", "0">>), Str(<<"x">>)}

\* Events whose two directions both hold a tier in the band, with an empty
\* table or with reserves in every spelling.
SpelledEvents ==
    {ImpactEvent(<<Tier(80, 4000, Frac(95, 100))>>, <<Tier(80, 4000, Frac(95, 100))>>,
                 Num(1), Num(1), amount_a, amount_b) :
        amount_a \in SpelledReserves, amount_b \in SpelledReserves}
    \cup {[Pool |-> [PoolId |-> "p1"], PoolPriceTable |-> EmptyDict,
           Liquidity |-> [AmountCurrencyA |-> Num(400), AmountCurrencyB |-> Num(400)]],
          [Pool |-> [PoolId |-> "p1"],
           PoolPriceTable |-> [AtoBPrices |-> <<Tier(80, 4000, Frac(95, 100))>>,
                               AtoBPrice |-> Num(1)]]}

ImpactEvents ==
    {ImpactEvent(atob, btoa, mid_atob, mid_btoa, amount_a, amount_b) :
        atob \in TierLists, btoa \in BtoATierLists,
        mid_atob \in MidPrices, mid_btoa \in MidPrices,
        amount_a \in Reserves, amount_b \in Reserves}
    \cup {NoTableEvent(amount_a, amount_b) :
              amount_a \in Reserves, amount_b \in Reserves}
    \cup SpelledEvents

\* The event to analyse is drawn at the start; nothing is analysed yet.
ImpactInit ==
    /\ pool_event_history = << >>
    /\ last_call = << >>
    /\ flow_run = [p \in PoolIds |-> NoRun]
    /\ call_clock = 0
    /\ \E pool_event \in ImpactEvents :
          impact_case = <<[pool_event |-> pool_event, analyzed |-> FALSE,
                           result |-> NoImpact, by_direction |-> << >>]>>
    /\ other_run = FreshRun
    /\ PipelineIdle
    /\ PureIdle

\* _check_direction called on the event's table and reserves, for each
\* direction; << >> when the event has no table to call it on.
DirectionResults(pool_price_table, amount_a, amount_b) ==
    IF DOMAIN pool_price_table = {} THEN << >>
    ELSE [d \in Directions |->
             check_direction(pool_price_table, d, amount_a, amount_b)]

Analyzed(pool_event) ==
    impact_case' = <<[pool_event |-> pool_event, analyzed |-> TRUE,
                      result |-> calculate_price_impact(pool_event),
                      by_direction |->
                          DirectionResults(
                              Get(pool_event, "PoolPriceTable", EmptyDict),
                              safe_to_numeric(Get(Get(pool_event, "Liquidity", EmptyDict),
                                                  "AmountCurrencyA", Num(0))),
                              safe_to_numeric(Get(Get(pool_event, "Liquidity", EmptyDict),
                                                  "AmountCurrencyB", Num(0))))]>>

Analyze ==
    /\ impact_case # << >>
    /\ ~impact_case[1].analyzed
    /\ Analyzed(impact_case[1].pool_event)
    /\ UNCHANGED <<flow_vars, pipeline_vars, call_clock, other_run, pure_vars>>

ImpactNext == Analyze

SpecImpact == ImpactInit /\ [][ImpactNext]_vars

(***************************************************************************)
(* SpecSize: calculate_position_size applied to one event and fade         *)
(* direction at two impacts, with reserves that are zero, small and large  *)
(* against the minimum size.                                               *)
(***************************************************************************)
SizeReserves == {Num(0), Num(1), Num(400)}

SizeImpacts == {RatInt(0), RatInt(50), RatInt(500), RatInt(9000), RatInt(10000)}

SizeEvent(amount_a, amount_b, decimals_a, decimals_b) ==
    [Pool |-> [PoolId |-> "p1",
               CurrencyA |-> [Symbol |-> "A", Decimals |-> decimals_a],
               CurrencyB |-> [Symbol |-> "B", Decimals |-> decimals_b]],
     Liquidity |-> [AmountCurrencyA |-> amount_a, AmountCurrencyB |-> amount_b]]

SizeEvents ==
    {SizeEvent(amount_a, amount_b, decimals_a, decimals_b) :
        amount_a \in SizeReserves, amount_b \in SizeReserves,
        decimals_a \in 0..MaxDecimals, decimals_b \in 0..MaxDecimals}

\* The event, the fade direction and the two impacts are drawn at the
\* start; nothing is sized yet.
SizeInit ==
    /\ pool_event_history = << >>
    /\ last_call = << >>
    /\ flow_run = [p \in PoolIds |-> NoRun]
    /\ call_clock = 0
    /\ impact_case = << >>
    /\ other_run = FreshRun
    /\ PipelineIdle
    /\ coerce_case = << >>
    /\ soft_case = << >>
    /\ signal_case = << >>
    /\ \E pool_event \in SizeEvents, fade_direction \in Directions,
          impact_bp \in SizeImpacts, other_impact_bp \in SizeImpacts :
            size_case = <<[pool_event |-> pool_event, fade_direction |-> fade_direction,
                           impact_bp |-> impact_bp, other_impact_bp |-> other_impact_bp,
                           sized |-> FALSE, size |-> RatInt(0),
                           other_size |-> RatInt(0)]>>

Sized(c, size, other_size) ==
    size_case' = <<[c EXCEPT !.sized = TRUE, !.size = size, !.other_size = other_size]>>

\* calculate_position_size(pool_event, impact_bp, fade_direction), at each
\* of the two impacts.
Size ==
    /\ size_case # << >>
    /\ ~size_case[1].sized
    /\ Sized(size_case[1],
             calculate_position_size(size_case[1].pool_event, size_case[1].impact_bp,
                                     size_case[1].fade_direction),
             calculate_position_size(size_case[1].pool_event,
                                     size_case[1].other_impact_bp,
                                     size_case[1].fade_direction))
    /\ UNCHANGED <<flow_vars, pipeline_vars, call_clock, impact_case, other_run,
                   coerce_case, soft_case, signal_case>>

SizeNext == Size

SpecSize == SizeInit /\ [][SizeNext]_vars

(***************************************************************************)
(* SpecSoft: one pass of handle_message's loop body over an event whose    *)
(* fields may be missing, unparseable, or spelled as strings.              *)
(***************************************************************************)
Restrict(f, keys) == [k \in DOMAIN f \cap keys |-> f[k]]

Unparseable == Str(<<"x">>)

\* A table whose tier fields are unparseable, and one whose tier has none.
TableUnparseable ==
    [AtoBPrices |-> <<[SlippageBasisPoints |-> Unparseable, MaxAmountIn |-> Unparseable,
                       Price |-> Unparseable]>>,
     AtoBPrice |-> Unparseable]

TableEmptyTier == [AtoBPrices |-> <<EmptyDict>>]

SoftTables == {TableAtoB, TableBtoA, TableUnparseable, TableEmptyTier}

SoftLiquidities ==
    {[AmountCurrencyA |-> Num(400), AmountCurrencyB |-> Num(500)],
     [AmountCurrencyA |-> Str(<<"4", "0", "0">>), AmountCurrencyB |-> Str(<<"5", "0", "0">>)],
     [AmountCurrencyA |-> Unparseable, AmountCurrencyB |-> Unparseable],
     EmptyDict}

SoftPools ==
    {[PoolId |-> "p1",
      CurrencyA |-> [Symbol |-> "A", Decimals |-> 2],
      CurrencyB |-> [Symbol |-> "B", Decimals |-> 3]],
     [CurrencyA |-> [Symbol |-> "A", Decimals |-> 2],
      CurrencyB |-> [Symbol |-> "B", Decimals |-> 3]]}

EventKeys == {"Pool", "TransactionHeader", "PoolPriceTable", "Liquidity"}

\* Every event over these pools, tables and liquidities, with any of its
\* top-level keys missing.
SoftEvents ==
    {Restrict([Pool |-> pool, TransactionHeader |-> [Time |-> ZeroTime],
               PoolPriceTable |-> table, Liquidity |-> liquidity], keys) :
        pool \in SoftPools, table \in SoftTables, liquidity \in SoftLiquidities,
        keys \in SUBSET EventKeys}

\* The registry before the event: empty, or holding a position of p1.
SoftRegistries ==
    {<< >>,
     [p \in {"p1"} |->
         create_fade_signal(MkEvent("p1", 0, TableAtoB),
                            calculate_price_impact(MkEvent("p1", 0, TableAtoB))[1], 0)]}

\* The event, the fields of it that arrive as str and the registry are
\* drawn at the start; the event is not handled yet.
SoftInit ==
    /\ pool_event_history = << >>
    /\ last_call = << >>
    /\ flow_run = [p \in PoolIds |-> NoRun]
    /\ call_clock = 0
    /\ impact_case = << >>
    /\ other_run = FreshRun
    /\ PipelineIdle
    /\ size_case = << >>
    /\ coerce_case = << >>
    /\ signal_case = << >>
    /\ \E pool_event \in SoftEvents, strings \in SUBSET UncoercedFields,
          positions \in SoftRegistries, now \in 0..MaxClock :
            soft_case = <<[pool_event |-> pool_event, strings |-> strings,
                           positions |-> positions, now |-> now, handled |-> FALSE,
                           error |-> NoError, signal |-> << >>,
                           positions_after |-> positions,
                           history_after |-> << >>]>>

Handled(c, r) ==
    soft_case' = <<[c EXCEPT !.handled = TRUE, !.error = r.error,
                             !.signal = r.outcome.signal,
                             !.positions_after = r.outcome.positions,
                             !.history_after = r.outcome.history]>>

Handle ==
    /\ soft_case # << >>
    /\ ~soft_case[1].handled
    /\ Handled(soft_case[1],
               LoopBody(<< >>, soft_case[1].positions, soft_case[1].pool_event,
                        soft_case[1].strings, soft_case[1].now))
    /\ UNCHANGED <<flow_vars, pipeline_vars, call_clock, impact_case, other_run,
                   size_case, coerce_case, signal_case>>

SoftNext == Handle

SpecSoft == SoftInit /\ [][SoftNext]_vars

(***************************************************************************)
(* SpecCoerce: convert_hex_to_int on one field of a message, for every     *)
(* short string over digits, hex letters, "x", "." and "-", some longer    *)
(* ones, and a value that is already a number.                             *)
(***************************************************************************)
CoerceAlphabet == {"0", "1", "a", "e", "x", ".", "-"}

LongerStrings ==
    {<<"1", "e", "1">>, <<"1", "e", "-", "1">>, <<"1", ".", "5">>,
     <<"1", ".", "5", "e", "1">>, <<"0", "x", "1", "a">>, <<"-", "1", "a">>,
     <<"4", "0", "0">>, <<"1", ".", "x">>, <<"0", "x", "g">>}

CoerceValues ==
    {Str(chars) : chars \in UNION {[1..k -> CoerceAlphabet] : k \in 0..MaxStrLen}
                                     \cup LongerStrings}
        \cup {Num(10)}

\* The keys of both field classes, and one key of neither.
CoerceKeys == numeric_hex_fields \cup numeric_fields \cup {"Symbol"}

\* The key and the value are drawn at the start; nothing is converted yet.
CoerceInit ==
    /\ pool_event_history = << >>
    /\ last_call = << >>
    /\ flow_run = [p \in PoolIds |-> NoRun]
    /\ call_clock = 0
    /\ impact_case = << >>
    /\ other_run = FreshRun
    /\ PipelineIdle
    /\ size_case = << >>
    /\ soft_case = << >>
    /\ signal_case = << >>
    /\ \E key \in CoerceKeys, value \in CoerceValues :
          coerce_case = <<[key |-> key, value |-> value, converted |-> FALSE,
                           result |-> value]>>

Converted(c, result) ==
    coerce_case' = <<[c EXCEPT !.converted = TRUE, !.result = result]>>

Convert ==
    /\ coerce_case # << >>
    /\ ~coerce_case[1].converted
    /\ Converted(coerce_case[1], ConvertField(coerce_case[1].key, coerce_case[1].value))
    /\ UNCHANGED <<flow_vars, pipeline_vars, call_clock, impact_case, other_run,
                   size_case, soft_case, signal_case>>

CoerceNext == Convert

SpecCoerce == CoerceInit /\ [][CoerceNext]_vars

(***************************************************************************)
(* SpecSignal: process_pool_event on one event, with no flow history and   *)
(* no position yet, for reserves that are zero, negative, small, large or  *)
(* spelled as strings, and every pair of decimals.                         *)
(***************************************************************************)
SignalTier == Tier(80, 4000, Frac(95, 100))

SignalTables ==
    {[AtoBPrices |-> <<SignalTier>>, AtoBPrice |-> Num(1),
      BtoAPrices |-> << >>, BtoAPrice |-> Num(1)],
     [AtoBPrices |-> << >>, AtoBPrice |-> Num(1),
      BtoAPrices |-> <<SignalTier>>, BtoAPrice |-> Num(1)],
     [AtoBPrices |-> <<Tier(80, 39, Frac(95, 100))>>, AtoBPrice |-> Num(1),
      BtoAPrices |-> <<SignalTier>>, BtoAPrice |-> Num(1)]}

SignalReserves ==
    {Num(0), Num(1), Num(400), Num(-400), Str(<<"4", "0", "0">>), Str(<<"x">>)}

SignalEvent(table, amount_a, amount_b, decimals_a, decimals_b) ==
    [Pool |-> [PoolId |-> "p1",
               CurrencyA |-> [Symbol |-> "A", Decimals |-> decimals_a],
               CurrencyB |-> [Symbol |-> "B", Decimals |-> decimals_b]],
     TransactionHeader |-> [Time |-> ZeroTime],
     PoolPriceTable |-> table,
     Liquidity |-> [AmountCurrencyA |-> amount_a, AmountCurrencyB |-> amount_b]]

SignalEvents ==
    {SignalEvent(table, amount_a, amount_b, decimals_a, decimals_b) :
        table \in SignalTables,
        amount_a \in SignalReserves, amount_b \in SignalReserves,
        decimals_a \in 0..MaxDecimals, decimals_b \in 0..MaxDecimals}

\* The event is drawn at the start; it is not processed yet.
SignalInit ==
    /\ pool_event_history = << >>
    /\ last_call = << >>
    /\ flow_run = [p \in PoolIds |-> NoRun]
    /\ call_clock = 0
    /\ impact_case = << >>
    /\ other_run = FreshRun
    /\ PipelineIdle
    /\ size_case = << >>
    /\ coerce_case = << >>
    /\ soft_case = << >>
    /\ \E pool_event \in SignalEvents :
          signal_case = <<[pool_event |-> pool_event, processed |-> FALSE,
                           impact |-> NoImpact, signal |-> << >>]>>

Emitted(c, impact, r) ==
    signal_case' = <<[c EXCEPT !.processed = TRUE, !.impact = impact,
                               !.signal = r.signal]>>

\* process_pool_event(pool_event) on empty histories and an empty registry.
Emit ==
    /\ signal_case # << >>
    /\ ~signal_case[1].processed
    /\ Emitted(signal_case[1], calculate_price_impact(signal_case[1].pool_event),
               process_pool_event(<< >>, << >>, signal_case[1].pool_event, 0))
    /\ UNCHANGED <<flow_vars, pipeline_vars, call_clock, impact_case, other_run,
                   size_case, coerce_case, soft_case>>

SignalNext == Emit

SpecSignal == SignalInit /\ [][SignalNext]_vars

(***************************************************************************)
(* Claims about the coercion of message fields (SpecCoerce).               *)
(***************************************************************************)
CaseConverted == coerce_case # << >> /\ coerce_case[1].converted

CaseKey == coerce_case[1].key
CaseValue == coerce_case[1].value
CaseString == coerce_case[1].value.s

\* The value of the first attempt that parses, else the string unchanged.
RECURSIVE FirstParsed(_, _)
FirstParsed(attempts, value) ==
    IF attempts = << >> THEN value
    ELSE IF Head(attempts).ok THEN NumOf(Head(attempts).v)
    ELSE FirstParsed(Tail(attempts), value)

\* A string of decimal digits yields its base-16 value in a hex-first field
\* and its base-10 value in a decimal-first field.
DigitsByFieldClass ==
    (IsNonEmptyStr(CaseValue) /\ AllDec(CaseString)) =>
        /\ CaseKey \in numeric_hex_fields
              => coerce_case[1].result = Num(DigitsValue(CaseString, 16, 0))
        /\ CaseKey \in numeric_fields
              => coerce_case[1].result = Num(DigitsValue(CaseString, 10, 0))

\* C17 (as claimed): a non-empty string of a hex-first field is tried as a
\* hexadecimal integer, then as a decimal integer, then as a decimal float;
\* one of a decimal-first field as a decimal integer, else a decimal float,
\* then as a hexadecimal integer; it is left unchanged when every attempt
\* fails.  A string of digits yields its hexadecimal value in the first
\* class and its decimal value in the second.
C17_AttemptOrder ==
    (CaseConverted /\ IsNonEmptyStr(CaseValue)) =>
        /\ CaseKey \in numeric_hex_fields =>
              coerce_case[1].result =
                  FirstParsed(<<IntBase16(CaseString), IntBase10(CaseString),
                                FloatOf(CaseString)>>, CaseValue)
        /\ CaseKey \in numeric_fields =>
              coerce_case[1].result =
                  FirstParsed(<<IntBase10(CaseString), FloatOf(CaseString),
                                IntBase16(CaseString)>>, CaseValue)
        /\ DigitsByFieldClass

\* C17 (amended): the decimal attempt is one parse, chosen by the string:
\* a decimal float when the string holds a ".", a decimal integer when it
\* does not.  A hex-first field tries the hexadecimal integer and then the
\* decimal attempt; a decimal-first field the decimal attempt and then the
\* hexadecimal integer; the string is left unchanged when both fail.  A
\* string of digits yields its hexadecimal value in the first class and its
\* decimal value in the second.
C17_AttemptOrderDecimalByPoint ==
    (CaseConverted /\ IsNonEmptyStr(CaseValue)) =>
        LET decimal == IF \E i \in 1..Len(CaseString) : CaseString[i] = "."
                       THEN FloatOf(CaseString) ELSE IntBase10(CaseString)
        IN  /\ CaseKey \in numeric_hex_fields =>
                  coerce_case[1].result =
                      FirstParsed(<<IntBase16(CaseString), decimal>>, CaseValue)
            /\ CaseKey \in numeric_fields =>
                  coerce_case[1].result =
                      FirstParsed(<<decimal, IntBase16(CaseString)>>, CaseValue)
            /\ DigitsByFieldClass

\* A decimal-first field holding "1e1": not a decimal integer, no ".", so
\* it is read as the hexadecimal integer 0x1e1.
C17_Witness ==
    /\ CaseConverted
    /\ CaseKey = "Price"
    /\ CaseValue = Str(<<"1", "e", "1">>)
    /\ coerce_case[1].result = Num(481)

(***************************************************************************)
(* Claims about malformed events (SpecSoft).                               *)
(***************************************************************************)
CaseHandled == soft_case # << >> /\ soft_case[1].handled

\* C16: malformed, missing or non-numeric event fields never raise an error
\* out of monitor_positions / process_pool_event: the event is processed to
\* completion.
C16_NeverRaises ==
    CaseHandled => soft_case[1].error = NoError

(***************************************************************************)
(* Claims about the position size (SpecSize).                              *)
(***************************************************************************)
CaseSized == size_case # << >> /\ size_case[1].sized

\* The currency bought by the fade: A when fading BtoA, else B.
BoughtCurrency == IF size_case[1].fade_direction = "BtoA" THEN "A" ELSE "B"

BoughtReserve ==
    safe_to_numeric(size_case[1].pool_event.Liquidity["AmountCurrency" \o BoughtCurrency])

BoughtDecimals == size_case[1].pool_event.Pool["Currency" \o BoughtCurrency].Decimals

\* MIN_POSITION_SIZE x 10^decimals of the bought currency.
SizeFloor ==
    Rat(MIN_POSITION_SIZE.n * Pow10(BoughtDecimals), MIN_POSITION_SIZE.d)

\* MAX_POSITION_SIZE_RATIO x the reserve of the bought currency.
SizeCap ==
    Rat(MAX_POSITION_SIZE_RATIO.n * BoughtReserve.n,
        MAX_POSITION_SIZE_RATIO.d * BoughtReserve.d)

C15_AtMostRatioOfReserve ==
    CaseSized => RatLe(size_case[1].size, SizeCap)

(***************************************************************************)
(* Claims about the impact analysis (SpecImpact).                          *)
(***************************************************************************)
CaseTable == Get(impact_case[1].pool_event, "PoolPriceTable", EmptyDict)

CaseReserve(currency) ==
    safe_to_numeric(Get(Get(impact_case[1].pool_event, "Liquidity", EmptyDict),
                        "AmountCurrency" \o currency, Num(0)))

\* The tier passes the slippage band and its MaxAmountIn is at least
\* MIN_LIQUIDITY_RATIO of the (positive) reserve.
TierQualifies(tier, reserve) ==
    /\ safe_to_numeric(tier.SlippageBasisPoints).n
          >= MIN_IMPACT_BASIS_POINTS * safe_to_numeric(tier.SlippageBasisPoints).d
    /\ safe_to_numeric(tier.SlippageBasisPoints).n
          <= MAX_IMPACT_BASIS_POINTS * safe_to_numeric(tier.SlippageBasisPoints).d
    /\ reserve.n > 0
    /\ safe_to_numeric(tier.MaxAmountIn).n * reserve.d * MIN_LIQUIDITY_RATIO.d
          >= MIN_LIQUIDITY_RATIO.n * reserve.n * safe_to_numeric(tier.MaxAmountIn).d

SomeTierQualifies(direction, currency) ==
    \E i \in 1..Len(Get(CaseTable, direction \o "Prices", << >>)) :
        TierQualifies(CaseTable[direction \o "Prices"][i], CaseReserve(currency))

CaseResult == impact_case[1].result

CaseAnalyzed == impact_case # << >> /\ impact_case[1].analyzed

\* C10 (as claimed): a BtoA result is returned only when no AtoB tier
\* qualifies: whenever some AtoB tier passes the slippage band and the
\* liquidity-ratio check, a result returned has direction AtoB.
C10_AtoBPreferred ==
    (CaseAnalyzed /\ CaseResult # NoImpact) =>
        (SomeTierQualifies("AtoB", "A") => CaseResult[1].direction = "AtoB")

\* C10 (amended): a BtoA result is returned only when no AtoB tier qualifies
\* or the AtoB mid price is zero; with a non-zero AtoB mid price and some
\* qualifying AtoB tier the result is an AtoB result, also when a
\* qualifying BtoA tier has the larger impact.
C10_AtoBPreferredUnlessMidZero ==
    (CaseAnalyzed /\ CaseResult # NoImpact) =>
        /\ (SomeTierQualifies("AtoB", "A")
                /\ ~RatIsZero(safe_to_numeric(Get(CaseTable, "AtoBPrice", Num(1)))))
            => CaseResult[1].direction = "AtoB"
        /\ CaseResult[1].direction = "BtoA"
            => \/ ~SomeTierQualifies("AtoB", "A")
               \/ RatIsZero(safe_to_numeric(Get(CaseTable, "AtoBPrice", Num(1))))

\* Both directions qualify, the BtoA tier with the larger impact, and the
\* result is the AtoB one.
C10_Witness ==
    /\ CaseAnalyzed
    /\ CaseResult # NoImpact
    /\ CaseResult[1].direction = "AtoB"
    /\ SomeTierQualifies("BtoA", "B")
    /\ ~RatIsZero(safe_to_numeric(Get(CaseTable, "BtoAPrice", Num(1))))
    /\ check_direction(CaseTable, "BtoA", CaseReserve("A"), CaseReserve("B")) # NoImpact
    /\ RatLt(CaseResult[1].impact_bp,
             check_direction(CaseTable, "BtoA", CaseReserve("A"),
                             CaseReserve("B"))[1].impact_bp)

\* The tiers of a direction, its mid price and the reserve of the currency
\* it sells.
CaseTiers(direction) == Get(CaseTable, direction \o "Prices", << >>)

CaseMid(direction) == safe_to_numeric(Get(CaseTable, direction \o "Price", Num(1)))

SoldCurrency(direction) == IF direction = "AtoB" THEN "A" ELSE "B"

\* The highest index of a tier of the direction that passes the band and
\* the liquidity-ratio test; 0 when there is none.
HighestQualifying(direction) ==
    LET ok == {i \in 1..Len(CaseTiers(direction)) :
                  TierQualifies(CaseTiers(direction)[i],
                                CaseReserve(SoldCurrency(direction)))}
    IN  IF ok = {} THEN 0 ELSE CHOOSE i \in ok : \A j \in ok : j <= i

\* The result is the one of tier i of the direction: that tier's
\* max_amount_in, positive, as swap_size, and its deviation from the mid
\* price, non-negative, as impact_bp.
IsResultOfTier(r, direction, i) ==
    /\ r # NoImpact
    /\ r[1].direction = direction
    /\ r[1].swap_size = safe_to_numeric(CaseTiers(direction)[i].MaxAmountIn)
    /\ r[1].swap_size.n > 0
    /\ r[1].impact_bp.n >= 0
    /\ r[1].impact_bp =
          RatMul(RatAbs(RatSub(RatInt(1),
                               RatDiv(safe_to_numeric(CaseTiers(direction)[i].Price),
                                      CaseMid(direction)))),
                 RatInt(10000))

CaseHasTable == CaseAnalyzed /\ impact_case[1].by_direction # << >>

\* C11 (as claimed): within a direction _check_direction returns the result
\* of the highest-index tier whose slippage lies in the inclusive band and
\* whose max_amount_in over the sold currency's reserve is at least
\* MIN_LIQUIDITY_RATIO, skipping the tiers that fail either test; swap_size
\* is that tier's max_amount_in and > 0, impact_bp is >= 0; with no such
\* tier it returns none.
C11_HighestQualifyingTier ==
    CaseHasTable =>
        \A d \in Directions :
            IF HighestQualifying(d) = 0
            THEN impact_case[1].by_direction[d] = NoImpact
            ELSE IsResultOfTier(impact_case[1].by_direction[d], d, HighestQualifying(d))

\* C11 (amended): the same when the direction's mid price is non-zero;
\* when the mid price is zero every tier is skipped and the result is none.
C11_HighestQualifyingTierUnlessMidZero ==
    CaseHasTable =>
        \A d \in Directions :
            IF HighestQualifying(d) = 0 \/ RatIsZero(CaseMid(d))
            THEN impact_case[1].by_direction[d] = NoImpact
            ELSE IsResultOfTier(impact_case[1].by_direction[d], d, HighestQualifying(d))

\* A direction with two tiers whose larger tier is skipped and whose
\* smaller tier is returned.
C11_Witness ==
    /\ CaseHasTable
    /\ \E d \in Directions :
          /\ Len(CaseTiers(d)) = 2
          /\ HighestQualifying(d) = 1
          /\ ~RatIsZero(CaseMid(d))
          /\ IsResultOfTier(impact_case[1].by_direction[d], d, 1)

\* C12: an event whose price table is missing or empty, or whose reserve of
\* currency A or of currency B is zero (or missing, or spelled as a string
\* that reads as zero), gets none from calculate_price_impact, whatever its
\* tiers hold.
C12_NoneWithoutTableOrReserve ==
    CaseAnalyzed =>
        ((\/ DOMAIN CaseTable = {}
          \/ RatIsZero(CaseReserve("A"))
          \/ RatIsZero(CaseReserve("B")))
            => CaseResult = NoImpact)

\* An event whose AtoB direction holds a qualifying tier against a reserve
\* of A that is not zero, and whose reserve of B is zero: none is returned.
C12_Witness ==
    /\ CaseAnalyzed
    /\ SomeTierQualifies("AtoB", "A")
    /\ ~RatIsZero(CaseMid("AtoB"))
    /\ RatIsZero(CaseReserve("B"))
    /\ CaseResult = NoImpact

(***************************************************************************)
(* Claims about the pipeline (Spec).                                       *)
(***************************************************************************)
MonitorStep == last_step' # last_step /\ last_step'[1].op = "monitor"
ProcessStep == last_step' # last_step /\ last_step'[1].op = "process"
SignalStep == ProcessStep /\ last_step'[1].signal # << >>

\* Pool p's position goes from pending to entered in this step.
Enters(p) ==
    /\ p \in DOMAIN active_positions /\ active_positions[p].status = "pending"
    /\ p \in DOMAIN active_positions' /\ active_positions'[p].status = "entered"

\* Pool p's registry entry is the same but for its status.
SamePosition(p) ==
    /\ p \in DOMAIN active_positions'
    /\ [active_positions'[p] EXCEPT !.status = active_positions[p].status]
            = active_positions[p]

\* C1: a signal is emitted and registered for pool p only when the registry
\* holds no position for p at that moment; an existing entry is never
\* overwritten, and an entry appears only with an emitted signal.
C1_SignalOnlyWithoutPosition ==
    [][/\ SignalStep =>
            /\ last_step'[1].pool_id \notin DOMAIN active_positions
            /\ active_positions' =
                  add_position(active_positions, last_step'[1].pool_id,
                               last_step'[1].signal[1])
            /\ last_step'[1].signal[1].pool_id = last_step'[1].pool_id
       /\ \A p \in DOMAIN active_positions : SamePosition(p)
       /\ \A p \in DOMAIN active_positions' \ DOMAIN active_positions :
            SignalStep /\ last_step'[1].pool_id = p]_vars

\* A qualifying event classified isolated is refused because the pool has a position.
C1_Witness ==
    /\ last_step # << >>
    /\ last_step[1].op = "process"
    /\ last_step[1].classified # << >>
    /\ last_step[1].classified[1].result
    /\ last_step[1].signal = << >>
    /\ last_step[1].pool_id \in DOMAIN active_positions

\* C5: a position goes from pending to entered only in monitor_positions on
\* an event of its pool and only when the clock is >= its entry_time; and
\* on such an event a pending position is entered iff the clock is >= its
\* entry_time, whatever the event's price table and liquidity.
C5_EntryIsTimeGate ==
    [][/\ \A p \in DOMAIN active_positions :
            Enters(p) => /\ MonitorStep
                         /\ last_step'[1].pool_id = p
                         /\ clock >= active_positions[p].entry_time
       /\ MonitorStep =>
            \A p \in DOMAIN active_positions :
                (last_step'[1].pool_id = p /\ active_positions[p].status = "pending")
                    => (Enters(p) <=> clock >= active_positions[p].entry_time)]_vars

\* A position entered on an event that has no price table, at its entry time.
C5_Witness ==
    /\ pc = SecondStep
    /\ last_step # << >>
    /\ last_step[1].op = "monitor"
    /\ last_step[1].entered
    /\ Get(Head(pool_events), "PoolPriceTable", EmptyDict) = EmptyDict
    /\ active_positions[last_step[1].pool_id].status = "entered"
    /\ active_positions[last_step[1].pool_id].entry_time = clock

\* C6: every registry entry is pending or entered (none is closed), and an
\* entered position never returns to pending.
C6_StatusForward ==
    [][/\ \A p \in DOMAIN active_positions' :
            active_positions'[p].status \in {"pending", "entered"}
       /\ \A p \in DOMAIN active_positions \cap DOMAIN active_positions' :
            active_positions[p].status = "entered"
                => active_positions'[p].status = "entered"]_vars

\* An entered position that monitor_positions has visited again.
C6_Witness ==
    /\ last_step # << >>
    /\ last_step[1].op = "monitor"
    /\ ~last_step[1].entered
    /\ last_step[1].pool_id \in DOMAIN active_positions
    /\ active_positions[last_step[1].pool_id].status = "entered"

\* C9: for every event monitor_positions runs before process_pool_event,
\* events are taken one at a time in order; a position registered while an
\* event is processed is pending with entry_time = creation time +
\* WAIT_TIME_SECONDS when that processing ends, and is entered only by a
\* later event.
C9_AdvanceThenDecide ==
    [][/\ ProcessStep =>
            /\ last_step # << >>
            /\ last_step[1].op = "monitor"
            /\ last_step[1].event_no = last_step'[1].event_no
       /\ MonitorStep =>
            /\ last_step # << >> => last_step[1].op = "process"
            /\ last_step'[1].event_no =
                  (IF last_step = << >> THEN 0 ELSE last_step[1].event_no) + 1
       /\ SignalStep =>
            /\ active_positions'[last_step'[1].pool_id].status = "pending"
            /\ active_positions'[last_step'[1].pool_id].entry_time
                  = clock + WAIT_TIME_SECONDS
            /\ born'[last_step'[1].pool_id] = last_step'[1].event_no
       /\ \A p \in DOMAIN active_positions :
            Enters(p) => MonitorStep /\ last_step'[1].event_no > born[p]]_vars

\* A position entered by the event right after the one that registered it.
C9_Witness ==
    /\ last_step # << >>
    /\ last_step[1].op = "monitor"
    /\ last_step[1].entered
    /\ last_step[1].event_no = born[last_step[1].pool_id] + 1

\* The signal's fade direction is the opposite of its swap direction.
FadesAgainstSwap(signal) ==
    /\ signal.swap_direction \in Directions
    /\ signal.fade_direction \in Directions
    /\ signal.swap_direction = "AtoB" => signal.fade_direction = "BtoA"
    /\ signal.swap_direction = "BtoA" => signal.fade_direction = "AtoB"

\* C18: every signal create_fade_signal builds, and so every registry
\* entry, has fade_direction opposite to its swap_direction, which is the
\* direction the impact analysis found.
C18_FadeOpposesSwap ==
    /\ \A p \in DOMAIN active_positions : FadesAgainstSwap(active_positions[p])
    /\ (last_step # << >> /\ last_step[1].signal # << >>) =>
          /\ FadesAgainstSwap(last_step[1].signal[1])
          /\ last_step[1].signal[1].swap_direction
                = last_step[1].classified[1].direction

\* The registry holds a fade of an AtoB swap and a fade of a BtoA swap.
C18_Witness ==
    /\ \E p \in DOMAIN active_positions :
          /\ active_positions[p].swap_direction = "AtoB"
          /\ active_positions[p].fade_direction = "BtoA"
    /\ \E p \in DOMAIN active_positions :
          /\ active_positions[p].swap_direction = "BtoA"
          /\ active_positions[p].fade_direction = "AtoB"

C7_PositionLeavesRegistry ==
    \A p \in LivePools :
        (p \in DOMAIN active_positions /\ active_positions[p].status = "entered")
            ~> (p \notin DOMAIN active_positions)

\* An event of pool p goes through monitor_positions in this step.
MonitorOn(p) == MonitorStep /\ last_step'[1].pool_id = p

IsPending(p) == p \in DOMAIN active_positions /\ active_positions[p].status = "pending"
IsEntered(p) == p \in DOMAIN active_positions /\ active_positions[p].status = "entered"

\* C20: a pending position of pool p is entered by the first event of p
\* that monitor_positions sees at a time >= its entry_time, and by nothing
\* else: events of other pools and the passing of time leave it pending.
\* If events of p keep arriving while time advances, the position is
\* eventually entered (entry times within the clock's range).
C20_EnteredByOwnPoolWhenDue ==
    /\ [][\A p \in LivePools :
            IsPending(p) =>
                /\ Enters(p) <=> (MonitorOn(p) /\ clock >= active_positions[p].entry_time)
                /\ ~Enters(p) => IsPending(p)']_vars
    /\ \A p \in LivePools :
          ([]<><<MonitorOn(p)>>_vars)
              => ((IsPending(p) /\ active_positions[p].entry_time <= MaxClock)
                      ~> IsEntered(p))

\* An event of p2 has just gone through monitor_positions while p1's
\* position is due, and that position is still pending.
C20_Witness ==
    /\ pc = SecondStep
    /\ last_step # << >>
    /\ last_step[1].op = "monitor"
    /\ last_step[1].pool_id = "p2"
    /\ IsPending("p1")
    /\ clock >= active_positions["p1"].entry_time

(***************************************************************************)
(* Claims about two runs on the same events (SpecTwoRuns).                 *)
(***************************************************************************)
\* A returned signal without its entry_time.
WithoutEntryTime(signal) ==
    IF signal = << >> THEN << >> ELSE <<[signal[1] EXCEPT !.entry_time = 0]>>

\* A registry without its entries' entry_time and status.
WithoutClockFields(positions) ==
    [p \in DOMAIN positions |->
        [positions[p] EXCEPT !.entry_time = 0, !.status = "pending"]]

\* C8 (as claimed): after every step both runs have returned the same
\* signal, entry_time included, and have made the same pending -> entered
\* transition, whatever their wall clocks.
C8_SameSignalsAndTransitions ==
    last_step # << >> =>
        /\ last_step[1].signal = other_run.signal
        /\ last_step[1].entered = other_run.entered
        /\ active_positions = other_run.active_positions

\* C8 (amended): two runs fed the same events emit signals at the same
\* events, equal in every field but entry_time, and keep equal flow
\* histories and registries equal but for entry_time and status; each
\* run's entry_time is its own wall clock at the emission plus
\* WAIT_TIME_SECONDS, and a run enters a position only when its own wall
\* clock has reached that entry_time.
C8_SameUpToWallClock ==
    [][/\ (MonitorStep \/ ProcessStep) =>
            /\ WithoutEntryTime(last_step'[1].signal)
                    = WithoutEntryTime(other_run'.signal)
            /\ pool_event_history' = other_run'.pool_event_history
            /\ WithoutClockFields(active_positions')
                    = WithoutClockFields(other_run'.active_positions)
       /\ SignalStep =>
            /\ last_step'[1].signal[1].entry_time = clock + WAIT_TIME_SECONDS
            /\ other_run'.signal[1].entry_time = other_run.clock + WAIT_TIME_SECONDS
       /\ MonitorStep =>
            /\ last_step'[1].entered =>
                    clock >= active_positions[last_step'[1].pool_id].entry_time
            /\ other_run'.entered =>
                    other_run.clock
                        >= other_run.active_positions[last_step'[1].pool_id].entry_time]_vars

\* Both runs hold a position for the same pool, registered on the same
\* event, with different entry times; one run has entered it and the other
\* has not.
C8_Witness ==
    /\ last_step # << >>
    /\ last_step[1].op = "monitor"
    /\ last_step[1].entered
    /\ ~other_run.entered
    /\ last_step[1].pool_id \in DOMAIN other_run.active_positions
    /\ other_run.active_positions[last_step[1].pool_id].status = "pending"
    /\ other_run.active_positions[last_step[1].pool_id].entry_time
          # active_positions[last_step[1].pool_id].entry_time

(***************************************************************************)
(* Claims about the flow classifier (SpecFlow).                            *)
(***************************************************************************)
\* A step in which is_isolated_shock was called.
CallStep == last_call' # last_call

TheCall == last_call'[1]

LastN(s, k) == IF Len(s) > k THEN SubSeq(s, Len(s) - k + 1, Len(s)) ELSE s

CountDirection(s, direction) ==
    Cardinality({i \in 1..Len(s) : s[i].direction = direction})

\* Records whose age t - time is at most the window.
NotOlderThanWindow(h, t) ==
    SelectSeq(h, LAMBDA r : t - r.time <= FLOW_DETECTION_WINDOW_SECONDS)

\* Records whose age t - time is strictly inside the window.
InsideWindow(h, t) ==
    SelectSeq(h, LAMBDA r : t - r.time < FLOW_DETECTION_WINDOW_SECONDS)

\* C2 (as claimed): a call discards exactly the records older than the
\* window (age > window; a record whose age equals the window is kept and
\* counted) and answers isolated iff the kept same-direction records number
\* at most MAX_SAME_DIRECTION_EVENTS.
C2_WindowKeepsEqualAge ==
    [][CallStep =>
        LET c == TheCall
            kept == NotOlderThanWindow(HistoryOf(pool_event_history, c.pool_id),
                                       c.current_time)
        IN  /\ c.result = (CountDirection(kept, c.direction) <= MAX_SAME_DIRECTION_EVENTS)
            /\ pool_event_history'[c.pool_id] =
                   LastN(kept \o <<[direction |-> c.direction, time |-> c.current_time]>>,
                         HISTORY_MAXLEN)]_vars

C4_HistoryUpdate ==
    [][/\ CallStep =>
            LET c == TheCall
                kept == InsideWindow(HistoryOf(pool_event_history, c.pool_id),
                                     c.current_time)
            IN  pool_event_history'[c.pool_id] =
                    LastN(kept \o <<[direction |-> c.direction, time |-> c.current_time]>>,
                          HISTORY_MAXLEN)
       /\ \A p \in DOMAIN pool_event_history' :
            Len(pool_event_history'[p]) <= HISTORY_MAXLEN]_vars

\* A full history that has just dropped its oldest record on a persistent verdict.
C4_Witness ==
    /\ last_call # << >>
    /\ ~last_call[1].result
    /\ Len(pool_event_history[last_call[1].pool_id]) = HISTORY_MAXLEN
    /\ flow_run[last_call[1].pool_id].ordered
    /\ flow_run[last_call[1].pool_id].n > HISTORY_MAXLEN

(***************************************************************************)
(* Claims about the decision order and the frame of a step (Spec).         *)
(***************************************************************************)
\* The event process_pool_event is called on in this step.
ProcessedEvent == Head(pool_events)

\* The record the classifier appends for an event whose swap has direction.
FlowRecord(pool_event, direction) ==
    [direction |-> direction, time |-> EventTime(pool_event)]

\* C21: the classifier is asked only after the impact analysis succeeded
\* and before the registry is looked at: every event with a non-empty pool
\* id and a qualifying impact appends one record to its pool's flow
\* history, whether it is then vetoed as persistent flow, vetoed because
\* the pool has a position, or faded; no other event is classified.
C21_ClassifiedAfterImpactBeforeVeto ==
    [][ProcessStep =>
        LET p == EventPoolId(ProcessedEvent)
            impact == calculate_price_impact(ProcessedEvent)
        IN  IF p # "" /\ impact # NoImpact
            THEN /\ last_step'[1].classified # << >>
                 /\ last_step'[1].classified[1].direction = impact[1].direction
                 /\ p \in DOMAIN pool_event_history'
                 /\ pool_event_history'[p] =
                        LastN(InsideWindow(HistoryOf(pool_event_history, p),
                                           EventTime(ProcessedEvent))
                                \o <<FlowRecord(ProcessedEvent, impact[1].direction)>>,
                              HISTORY_MAXLEN)
                 /\ (last_step'[1].signal # << >>) <=>
                        (last_step'[1].classified[1].result
                            /\ p \notin DOMAIN active_positions)
            ELSE last_step'[1].classified = << >>]_vars

\* An event classified persistent for a pool that has a position: both
\* vetoes apply and the record is in the history all the same.
C21_Witness ==
    /\ last_step # << >>
    /\ last_step[1].op = "process"
    /\ last_step[1].classified # << >>
    /\ ~last_step[1].classified[1].result
    /\ last_step[1].pool_id \in DOMAIN active_positions
    /\ Len(pool_event_history[last_step[1].pool_id]) = 3

\* C22: an event with an empty pool id, or one for which
\* calculate_price_impact returns none, yields no signal, and
\* process_pool_event leaves the flow histories and the registry as they
\* were.
C22_NoImpactNoEffect ==
    [][ProcessStep =>
        ((\/ EventPoolId(ProcessedEvent) = ""
          \/ calculate_price_impact(ProcessedEvent) = NoImpact)
            => /\ last_step'[1].signal = << >>
               /\ pool_event_history' = pool_event_history
               /\ active_positions' = active_positions)]_vars

\* An event of p1 without impact has been processed while p1 has a flow
\* history and a position.
C22_Witness ==
    /\ last_step # << >>
    /\ last_step[1].op = "process"
    /\ last_step[1].pool_id = "p1"
    /\ last_step[1].classified = << >>
    /\ last_step[1].signal = << >>
    /\ "p1" \in DOMAIN active_positions
    /\ "p1" \in DOMAIN pool_event_history
    /\ pool_event_history["p1"] # << >>

PositionOf(positions, q) == IF q \in DOMAIN positions THEN <<positions[q]>> ELSE << >>

\* C24: a step of the loop body on an event of pool p (monitor_positions,
\* or process_pool_event with its calls of is_isolated_shock and
\* add_position) leaves the flow history and the registry entry of every
\* other pool as they were.
C24_OtherPoolsUntouched ==
    [][(MonitorStep \/ ProcessStep) =>
        \A q \in PoolIds \ {last_step'[1].pool_id} :
            /\ (q \in DOMAIN pool_event_history') <=> (q \in DOMAIN pool_event_history)
            /\ HistoryOf(pool_event_history', q) = HistoryOf(pool_event_history, q)
            /\ PositionOf(active_positions', q) = PositionOf(active_positions, q)]_vars

\* A signal has just been emitted for p1 while p2 has a flow history and a
\* pending position that is due.
C24_Witness ==
    /\ last_step # << >>
    /\ last_step[1].op = "process"
    /\ last_step[1].pool_id = "p1"
    /\ last_step[1].signal # << >>
    /\ "p2" \in DOMAIN active_positions
    /\ active_positions["p2"].status = "pending"
    /\ clock >= active_positions["p2"].entry_time
    /\ "p2" \in DOMAIN pool_event_history
    /\ pool_event_history["p2"] # << >>

(***************************************************************************)
(* Claims about the currency of a signal (SpecSignal).                     *)
(***************************************************************************)
CaseEmitted ==
    signal_case # << >> /\ signal_case[1].processed /\ signal_case[1].signal # << >>

TheSignal == signal_case[1].signal[1]

\* The reserve and the decimals the event gives for a currency.
ReserveOf(pool_event, currency) ==
    safe_to_numeric(pool_event.Liquidity["AmountCurrency" \o currency])

DecimalsOf(pool_event, currency) == pool_event.Pool["Currency" \o currency].Decimals

\* C25: in every emitted signal the position is in the currency the swap
\* sold: position_size_decimals equals swap_size_decimals, and the size is
\* computed from the reserve of that currency, the one the liquidity-ratio
\* test of the impact analysis divided by; that reserve is > 0, so the size
\* is not the 0 of the zero-reserve branch and is >= MIN_POSITION_SIZE x
\* 10^decimals > 0.
C25_SizedInSoldCurrency ==
    /\ (signal_case # << >> /\ signal_case[1].processed)
          => (signal_case[1].signal # << >> <=> signal_case[1].impact # NoImpact)
    /\ CaseEmitted =>
          LET sold == IF TheSignal.swap_direction = "AtoB" THEN "A" ELSE "B"
              reserve == ReserveOf(signal_case[1].pool_event, sold)
              decimals == DecimalsOf(signal_case[1].pool_event, sold)
              floor == Rat(MIN_POSITION_SIZE.n * Pow10(decimals), MIN_POSITION_SIZE.d)
              raw == RatMul(RatMul(reserve, Rat(MAX_POSITION_SIZE_RATIO.n,
                                                MAX_POSITION_SIZE_RATIO.d)),
                            ImpactFactor(TheSignal.impact_basis_points))
          IN  /\ TheSignal.swap_direction = signal_case[1].impact[1].direction
              /\ TheSignal.position_size_decimals = TheSignal.swap_size_decimals
              /\ TheSignal.position_size_decimals = decimals
              /\ RatLt(RatInt(0), reserve)
              /\ RatLe(Rat(MIN_LIQUIDITY_RATIO.n, MIN_LIQUIDITY_RATIO.d),
                       RatDiv(TheSignal.swap_size, reserve))
              /\ TheSignal.position_size = RatMax(raw, floor)
              /\ RatLe(floor, TheSignal.position_size)
              /\ RatLt(RatInt(0), floor)

\* A signal on a BtoA swap whose sold reserve is tiny, so that the size is
\* the minimum, while the other currency has another reserve and other
\* decimals.
C25_Witness ==
    /\ CaseEmitted
    /\ TheSignal.swap_direction = "BtoA"
    /\ ReserveOf(signal_case[1].pool_event, "B") = RatInt(1)
    /\ ReserveOf(signal_case[1].pool_event, "A") = RatInt(1024)
    /\ DecimalsOf(signal_case[1].pool_event, "B") = MaxDecimals
    /\ DecimalsOf(signal_case[1].pool_event, "A") = 0
    /\ TheSignal.position_size = RatInt(10)

====
